---- MODULE Spec2Model ----
(***************************************************************************)
(* Model of the Functions-project traversal of DurableFunctionsMonitor     *)
(* (traverseFunctionProject and the helpers it calls).                     *)
(*                                                                         *)
(* A functions map is a sequence of entries in key-insertion order, which  *)
(* is the order Object.keys() yields.  A function's code is a sequence of  *)
(* statements; a traversal regex matches a code body when the body holds a *)
(* statement of the regex's call form that names the regex's target.       *)
(***************************************************************************)
EXTENDS Integers, Sequences, FiniteSets, TLC

\* ------------------------------------------------------------------ bounds

\* Number of function directories of the project.
NumFuncs == 3

\* Number of distinct external event names.
NumEvents == 2

\* Longest binding list (descriptor-declared or extracted from code) that the
\* enrichment is applied to on its own.
MaxBindings == 2

\* Longest proxies.json text, in items, that readProxiesJson is applied to on
\* its own.
MaxText == 3

NamePool == <<"F1", "F2", "F3", "F4", "F5">>

EventPool == <<"E1", "E2", "E3", "E4">>

FuncNames == {NamePool[i] : i \in 1..NumFuncs}

EventNames == {EventPool[i] : i \in 1..NumEvents}

\* ------------------------------------------------------------ sequences

Range(s) == {s[i] : i \in DOMAIN s}

Occurrences(x, s) == Cardinality({i \in DOMAIN s : s[i] = x})

NoDuplicates(s) == \A i, j \in DOMAIN s : s[i] = s[j] => i = j

\* The sequences over S of length at most n.
SeqsUpTo(S, n) == UNION {[1..k -> S] : k \in 0..n}

\* ------------------------------------------------------------- bindings

Undefined == "undefined"

Binding(t, d) == [type |-> t, direction |-> d]

DurableTriggers == {"orchestrationTrigger", "activityTrigger", "entityTrigger"}

\* The bindings arrays of the function.json files of the modelled projects:
\* one per durable trigger, an HTTP-triggered function whose bindings carry
\* no direction, and a descriptor that declares all three durable triggers.
OrchestratorBindings == <<Binding("orchestrationTrigger", "in")>>

ActivityBindings == <<Binding("activityTrigger", Undefined)>>

EntityBindings == <<Binding("entityTrigger", "in")>>

HttpBindings == <<Binding("httpTrigger", Undefined), Binding("http", "out")>>

MultiTriggerBindings ==
    <<Binding("orchestrationTrigger", "in"), Binding("activityTrigger", "in"),
      Binding("entityTrigger", "in")>>

BindingLists ==
    {OrchestratorBindings, ActivityBindings, EntityBindings, HttpBindings,
     MultiTriggerBindings}

\* ----------------------------------------------------------- code bodies

Stmt(op, arg) == [op |-> op, arg |-> arg]

NameOps == {"callActivity", "callSubOrchestrator", "startNew", "signalEntity"}

CallStmts == {Stmt(op, n) : op \in NameOps, n \in FuncNames}

ContinueAsNewStmt == Stmt("continueAsNew", "")

WaitStmts == {Stmt("waitForExternalEvent", e) : e \in EventNames}

RaiseStmts == {Stmt("raiseEvent", e) : e \in EventNames}

\* What the code lookup of one function yields: found is FALSE when no file
\* matched; code is the body that was carved out; attrs are the bindings
\* that BindingsParser.tryExtractBindings reads off that body.
Source(found, code, attrs) == [found |-> found, code |-> code, attrs |-> attrs]

NoSource == Source(FALSE, <<>>, <<>>)

EmptySource == Source(TRUE, <<>>, <<>>)

\* ------------------------------------------------------ pattern matchers

RegexExec(op, name, code) == \E i \in DOMAIN code : code[i] = Stmt(op, name)

getStartNewOrchestrationRegex(orchName, code) == RegexExec("startNew", orchName, code)

getCallSubOrchestratorRegex(subOrchName, code) ==
    RegexExec("callSubOrchestrator", subOrchName, code)

getCallActivityRegex(activityName, code) == RegexExec("callActivity", activityName, code)

getSignalEntityRegex(entityName, code) == RegexExec("signalEntity", entityName, code)

getRaiseEventRegex(eventName, code) == RegexExec("raiseEvent", eventName, code)

continueAsNewRegex(code) == RegexExec("continueAsNew", "", code)

IsWait(stmt) == stmt.op = "waitForExternalEvent"

\* Every match of the wait-for-external-event regex, in textual order.
getEventNamesAll(orchestratorCode) ==
    LET waits == SelectSeq(orchestratorCode, IsWait)
    IN  [i \in DOMAIN waits |-> waits[i].arg]

\* getEventNames with a regex that is not global: the first match only.
getEventNamesFirst(orchestratorCode) ==
    LET all == getEventNamesAll(orchestratorCode)
    IN  IF all = <<>> THEN <<>> ELSE <<all[1]>>

\* Tries to extract event names that this orchestrator is awaiting.
getEventNames(orchestratorCode) == getEventNamesAll(orchestratorCode)

\* --------------------------------------------------------- functions map

FunctionInfo(name, bindings, hasBindings) ==
    [name |-> name, bindings |-> bindings, hasBindings |-> hasBindings,
     isCalledBy |-> <<>>, isSignalledBy |-> <<>>, isCalledByItself |-> Undefined,
     filePath |-> Undefined]

Keys(functions) == [i \in DOMAIN functions |-> functions[i].name]

HasKey(functions, name) == \E i \in DOMAIN functions : functions[i].name = name

Get(functions, name) ==
    functions[CHOOSE i \in DOMAIN functions : functions[i].name = name]

PushIsCalledBy(functions, target, caller) ==
    [i \in DOMAIN functions |->
        IF functions[i].name = target
        THEN [functions[i] EXCEPT !.isCalledBy = Append(@, caller)]
        ELSE functions[i]]

PushIsSignalledBy(functions, target, caller, eventName) ==
    [i \in DOMAIN functions |->
        IF functions[i].name = target
        THEN [functions[i] EXCEPT
                !.isSignalledBy = Append(@, [name |-> caller, signalName |-> eventName])]
        ELSE functions[i]]

SetIsCalledByItself(functions, target) ==
    [i \in DOMAIN functions |->
        IF functions[i].name = target
        THEN [functions[i] EXCEPT !.isCalledByItself = "true"]
        ELSE functions[i]]

HasBindingOfType(info, types) ==
    \E i \in DOMAIN info.bindings : info.bindings[i].type \in types

\* ------------------------------------------------ graph mapping (passes)

\* for (const x of s) acc = Body(acc, x)
RECURSIVE ForEach(_, _, _, _)
ForEach(Body(_, _), acc, s, i) ==
    IF i > Len(s) THEN acc ELSE ForEach(Body, Body(acc, s[i]), s, i + 1)

NamesWithBinding(functions, types) ==
    LET hit == SelectSeq(functions, LAMBDA info : HasBindingOfType(info, types))
    IN  Keys(hit)

orchestratorNamesOf(functions) == NamesWithBinding(functions, {"orchestrationTrigger"})

activityNamesOf(functions) == NamesWithBinding(functions, {"activityTrigger"})

entityNamesOf(functions) == NamesWithBinding(functions, {"entityTrigger"})

otherFunctionNamesOf(functions) ==
    Keys(SelectSeq(functions, LAMBDA info : ~HasBindingOfType(info, DurableTriggers)))

\* Promise.all keeps the order of functionNames; names without a match are
\* filtered out.
getFunctionsAndTheirCodesAsync(functionNames, src) ==
    LET found == SelectSeq(functionNames, LAMBDA name : src[name].found)
    IN  [i \in DOMAIN found |->
            [name |-> found[i], code |-> src[found[i]].code,
             attrs |-> src[found[i]].attrs]]

\* StartNewPass that records the calling function once per matching call.
StartNewPassEveryMatch(functions, orch, otherFunctions) ==
    ForEach(LAMBDA fs, func :
                ForEach(LAMBDA gs, st :
                            IF st = Stmt("startNew", orch.name)
                            THEN PushIsCalledBy(gs, orch.name, func.name)
                            ELSE gs,
                        fs, func.code, 1),
            functions, otherFunctions, 1)

\* Trying to match this orchestrator with its calling function.
StartNewPass(functions, orch, otherFunctions) ==
    ForEach(LAMBDA fs, func :
                IF getStartNewOrchestrationRegex(orch.name, func.code)
                THEN PushIsCalledBy(fs, orch.name, func.name)
                ELSE fs,
            functions, otherFunctions, 1)

\* SubOrchestratorPass without the test that skips the orchestrator itself.
SubOrchestratorPassSelf(functions, orch, orchestrators) ==
    ForEach(LAMBDA fs, subOrch :
                IF getCallSubOrchestratorRegex(subOrch.name, orch.code)
                THEN PushIsCalledBy(fs, subOrch.name, orch.name)
                ELSE fs,
            functions, orchestrators, 1)

\* Matching suborchestrators.
SubOrchestratorPass(functions, orch, orchestrators) ==
    ForEach(LAMBDA fs, subOrch :
                IF orch.name = subOrch.name
                THEN fs
                ELSE IF getCallSubOrchestratorRegex(subOrch.name, orch.code)
                     THEN PushIsCalledBy(fs, subOrch.name, orch.name)
                     ELSE fs,
            functions, orchestrators, 1)

\* mapActivitiesToOrchestrator with caller and callee swapped.
mapActivitiesToOrchestratorSwapped(functions, orch, activityNames) ==
    ForEach(LAMBDA fs, activityName :
                IF getCallActivityRegex(activityName, orch.code)
                THEN PushIsCalledBy(fs, orch.name, activityName)
                ELSE fs,
            functions, activityNames, 1)

\* Tries to match orchestrator with its activities.
mapActivitiesToOrchestrator(functions, orch, activityNames) ==
    ForEach(LAMBDA fs, activityName :
                IF getCallActivityRegex(activityName, orch.code)
                THEN PushIsCalledBy(fs, activityName, orch.name)
                ELSE fs,
            functions, activityNames, 1)

\* ContinueAsNewStep without the test of the regex.
ContinueAsNewStepUntested(functions, orch) == SetIsCalledByItself(functions, orch.name)

\* Checking whether orchestrator calls itself.
ContinueAsNewStep(functions, orch) ==
    IF continueAsNewRegex(orch.code) THEN SetIsCalledByItself(functions, orch.name)
    ELSE functions

\* Trying to map event producers with their consumers.
EventsPass(functions, orch, otherFunctions) ==
    ForEach(LAMBDA fs, eventName :
                ForEach(LAMBDA gs, func :
                            IF getRaiseEventRegex(eventName, func.code)
                            THEN PushIsSignalledBy(gs, orch.name, func.name, eventName)
                            ELSE gs,
                        fs, otherFunctions, 1),
            functions, getEventNames(orch.code), 1)

\* One iteration of the loop over the orchestrators.
OrchestratorStep(functions, orch, orchestrators, otherFunctions, activityNames) ==
    LET f1 == StartNewPass(functions, orch, otherFunctions)
        f2 == SubOrchestratorPass(f1, orch, orchestrators)
        f3 == mapActivitiesToOrchestrator(f2, orch, activityNames)
        f4 == ContinueAsNewStep(f3, orch)
    IN  EventsPass(f4, orch, otherFunctions)

\* Trying to match this entity with its calling function.
EntityStep(functions, entity, otherFunctions) ==
    ForEach(LAMBDA fs, func :
                IF getSignalEntityRegex(entity.name, func.code)
                THEN PushIsCalledBy(fs, entity.name, func.name)
                ELSE fs,
            functions, otherFunctions, 1)

\* --------------------------------------------------- binding enrichment

\* MergeBindings without the test of existingBindingTypes.
MergeBindingsUntested(bindingsFromFunctionJson, bindingsFromCode) ==
    bindingsFromFunctionJson \o bindingsFromCode

\* Only pushing extracted binding, if a binding with that type doesn't exist
\* yet in function.json.  existingBindingTypes is computed once, before the
\* loop over bindingsFromCode.
MergeBindings(bindingsFromFunctionJson, bindingsFromCode) ==
    LET existingBindingTypes ==
            {bindingsFromFunctionJson[i].type : i \in DOMAIN bindingsFromFunctionJson}
    IN  bindingsFromFunctionJson
            \o SelectSeq(bindingsFromCode, LAMBDA b : b.type \notin existingBindingTypes)

\* SetDefaultDirections that takes the first candidate of the type, however
\* many there are.
SetDefaultDirectionsFirst(bindings, bindingsFromCode) ==
    [i \in DOMAIN bindings |->
        IF bindings[i].direction = Undefined
        THEN LET bindingsOfThisTypeFromCode ==
                     SelectSeq(bindingsFromCode, LAMBDA b : b.type = bindings[i].type)
             IN  IF Len(bindingsOfThisTypeFromCode) >= 1
                 THEN [bindings[i] EXCEPT
                         !.direction = bindingsOfThisTypeFromCode[1].direction]
                 ELSE bindings[i]
        ELSE bindings[i]]

\* Also setting default direction.
SetDefaultDirections(bindings, bindingsFromCode) ==
    [i \in DOMAIN bindings |->
        IF bindings[i].direction = Undefined
        THEN LET bindingsOfThisTypeFromCode ==
                     SelectSeq(bindingsFromCode, LAMBDA b : b.type = bindings[i].type)
             IN  IF Len(bindingsOfThisTypeFromCode) = 1
                 THEN [bindings[i] EXCEPT
                         !.direction = bindingsOfThisTypeFromCode[1].direction]
                 ELSE bindings[i]
        ELSE bindings[i]]

EnrichBindings(bindingsFromFunctionJson, bindingsFromCode) ==
    SetDefaultDirections(MergeBindings(bindingsFromFunctionJson, bindingsFromCode),
                         bindingsFromCode)

tryExtractBindings(func) == func.attrs

SetBindings(functions, target, bindings) ==
    [i \in DOMAIN functions |->
        IF functions[i].name = target
        THEN [functions[i] EXCEPT !.bindings = bindings]
        ELSE functions[i]]

\* Trying to extract extra binding info from C# code.
EnrichPass(functions, funcs) ==
    ForEach(LAMBDA fs, func :
                SetBindings(fs, func.name,
                            EnrichBindings(Get(fs, func.name).bindings,
                                           tryExtractBindings(func))),
            functions, funcs, 1)

\* Also adding file paths and code positions.
CopyPositions(functions, funcs) ==
    [i \in DOMAIN functions |->
        IF \E k \in DOMAIN funcs : funcs[k].name = functions[i].name
        THEN [functions[i] EXCEPT !.filePath = "found"]
        ELSE functions[i]]

\* The synchronous part of mapOrchestratorsAndActivitiesAsync, from the loop
\* over the orchestrators to the return.
MapPassesOf(functions, kind, orchs, acts, ents, others, actNames) ==
    LET f1 == ForEach(LAMBDA fs, orch : OrchestratorStep(fs, orch, orchs, others, actNames),
                      functions, orchs, 1)
        f2 == ForEach(LAMBDA fs, entity : EntityStep(fs, entity, others), f1, ents, 1)
        f3 == IF kind = "dotNet" THEN EnrichPass(f2, acts \o others) ELSE f2
    IN  CopyPositions(f3, others \o orchs \o acts \o ents)

\* ---------------------------------------------------------------- state

VARIABLES
    pc,                      \* position in traverseFunctionProject
    outcome,                 \* "running", "returned" or "thrown"
    steps,                   \* the stages that ran, in order
    dirs,                    \* the function directories under hostJsonFolder
    source,                  \* what the code lookup finds for each function
    facts,                   \* what the probes of the file system have answered
    projectFolder,
    hostJsonFolder,
    tempFolders,
    isDotNetIsolatedProject,
    isJavaProject,
    pending,                 \* function.json reads started and not yet completed
    functions,
    projectKind,             \* of mapOrchestratorsAndActivitiesAsync
    located,                 \* the buckets of mapOrchestratorsAndActivitiesAsync
    proxies,
    log,
    enrichInput,             \* a descriptor binding list and a candidate list
    enrichRuns,              \* the binding list after each enrichment of it
    monitorViews,            \* MonitorViewList._monitorViews, in insertion order
    backends,                \* MonitorViewList._backends
    views,                   \* the MonitorView objects created so far
    backendProcesses,        \* the BackendProcess objects created so far
    calls,                   \* the suspended calls of MonitorViewList methods
    secrets,                 \* ExtensionContext.secrets
    connStringHashes,        \* globalState.get(ConnectionStringHashes)
    returned                 \* the call that ran or resumed in the last step

vars ==
    <<pc, outcome, steps, dirs, source, facts, projectFolder, hostJsonFolder,
      tempFolders, isDotNetIsolatedProject, isJavaProject, pending, functions,
      projectKind, located, proxies, log, enrichInput, enrichRuns, monitorViews,
      backends, views, backendProcesses, calls, secrets, connStringHashes, returned>>

inputVars == <<dirs, source>>

enrichVars == <<enrichInput, enrichRuns>>

mapVars == <<projectKind, located>>

viewListVars ==
    <<monitorViews, backends, views, backendProcesses, calls, secrets, connStringHashes,
      returned>>

YesNo == {"yes", "no"}

NoFacts ==
    [hostJson |-> "?", dotNetRoot |-> "?", dotNetSub |-> "?", javaRoot |-> "?",
     javaSub |-> "?", javaPublish |-> "?", proxiesJson |-> "?", proxiesText |-> <<>>,
     csProjFile |-> "?"]

NoBuckets ==
    [orchestratorNames |-> <<>>, activityNames |-> <<>>, entityNames |-> <<>>,
     otherFunctionNames |-> <<>>, orchestrators |-> <<>>, activities |-> <<>>,
     entities |-> <<>>, otherFunctions |-> <<>>]

\* A function directory: its function.json parses to a bindings array
\* ("valid"), parses but declares no bindings ("noBindings"), does not parse
\* ("unparseable"), or the entry is no directory with a function.json.
Dir(kind, bindings) == [kind |-> kind, bindings |-> bindings]

ValidDirs == {Dir("valid", b) : b \in BindingLists}

BrokenDirs == {Dir("unparseable", <<>>), Dir("noBindings", <<>>), Dir("notAFunction", <<>>)}

NameSeq == SubSeq(NamePool, 1, NumFuncs)

\* The functions map a descriptor reader yields when it reads the
\* directories in the order of names.
FunctionsFrom(d, names) ==
    LET ok == SelectSeq(names, LAMBDA n : d[n].kind \in {"valid", "noBindings"})
    IN  [i \in DOMAIN ok |-> FunctionInfo(ok[i], d[ok[i]].bindings, d[ok[i]].kind = "valid")]

Throw(stage) ==
    /\ outcome' = "thrown"
    /\ pc' = "done"
    /\ steps' = Append(steps, stage)

Goto(stage, next) ==
    /\ outcome' = outcome
    /\ pc' = next
    /\ steps' = Append(steps, stage)

\* return { functions, proxies, tempFolders, projectFolder }
Return(stage) ==
    /\ outcome' = "returned"
    /\ pc' = "done"
    /\ steps' = Append(steps, stage)

StartState ==
    /\ outcome = "running"
    /\ steps = <<>>
    /\ facts = NoFacts
    /\ projectFolder = Undefined
    /\ hostJsonFolder = Undefined
    /\ tempFolders = <<>>
    /\ isDotNetIsolatedProject = FALSE
    /\ isJavaProject = FALSE
    /\ pending = {}
    /\ functions = <<>>
    /\ projectKind = "other"
    /\ located = NoBuckets
    /\ proxies = {}
    /\ log = {}

NoEnrich ==
    /\ enrichInput = [json |-> <<>>, code |-> <<>>]
    /\ enrichRuns = <<>>

Call(op, conn, hub, view, done) ==
    [op |-> op, conn |-> conn, hub |-> hub, view |-> view, done |-> done]

NoCall == Call("none", Undefined, Undefined, 0, TRUE)

\* private _monitorViews = {}; private _backends = {}; nothing persisted.
NoMonitorViewList ==
    /\ monitorViews = <<>>
    /\ backends = {}
    /\ views = <<>>
    /\ backendProcesses = <<>>
    /\ calls = <<>>
    /\ secrets = {}
    /\ connStringHashes = [defined |-> FALSE, value |-> <<>>]
    /\ returned = NoCall

\* ------------------------------------------------ traverseFunctionProject

\* The probe of fact f answers r: the first answer stands for the run.
Probe(f, r) == facts[f] \in {"?", r}

\* projectFolder is a local path.
UseLocalFolder ==
    /\ pc = "start"
    /\ projectFolder' = "local"
    /\ Goto("local", "findHostJson")
    /\ UNCHANGED <<inputVars, viewListVars, facts, hostJsonFolder, tempFolders, isDotNetIsolatedProject,
                   isJavaProject, pending, functions, mapVars, proxies, log, enrichVars>>

\* If it is a git repo, cloning it.  A failed clone rejects before the
\* temp folder is recorded.
CloneFromGitHub ==
    /\ pc = "start"
    /\ \E cloned \in BOOLEAN :
          IF cloned
          THEN /\ tempFolders' = Append(tempFolders, "gitTempFolder")
               /\ projectFolder' = "gitTempFolder"
               /\ Goto("clone", "findHostJson")
          ELSE /\ UNCHANGED <<tempFolders, projectFolder>>
               /\ Throw("clone")
    /\ UNCHANGED <<inputVars, viewListVars, facts, hostJsonFolder, isDotNetIsolatedProject,
                   isJavaProject, pending, functions, mapVars, proxies, log, enrichVars>>

\* FindHostJson without the check of hostJsonMatch: the traversal goes on.
FindHostJsonUnchecked ==
    /\ pc = "findHostJson"
    /\ \E where \in {"none", "root", "sub"} :
          /\ facts' = [facts EXCEPT !.hostJson = where]
          /\ hostJsonFolder' = IF where = "none" THEN "root" ELSE where
          /\ Goto("findHostJson", "probeIsolated")
    /\ UNCHANGED <<inputVars, viewListVars, projectFolder, tempFolders, isDotNetIsolatedProject,
                   isJavaProject, pending, functions, mapVars, proxies, log, enrichVars>>

\* findFileRecursivelyAsync(projectFolder, 'host.json'): not found, found in
\* the project folder itself, or found in a folder below it.
FindHostJson ==
    /\ pc = "findHostJson"
    /\ \E where \in {"none", "root", "sub"} :
          /\ facts' = [facts EXCEPT !.hostJson = where]
          /\ IF where = "none"
             THEN /\ Throw("findHostJson")
                  /\ UNCHANGED hostJsonFolder
             ELSE /\ hostJsonFolder' = where
                  /\ Goto("findHostJson", "probeIsolated")
    /\ UNCHANGED <<inputVars, viewListVars, projectFolder, tempFolders, isDotNetIsolatedProject,
                   isJavaProject, pending, functions, mapVars, proxies, log, enrichVars>>

\* isDotNetIsolatedProjectAsync(projectFolder)
ProbeIsolated ==
    /\ pc = "probeIsolated"
    /\ \E r \in BOOLEAN :
          /\ isDotNetIsolatedProject' = r
          /\ Goto("probeIsolated", IF r THEN "branch" ELSE "probeDotNet")
    /\ UNCHANGED <<inputVars, viewListVars, facts, projectFolder, hostJsonFolder, tempFolders,
                   isJavaProject, pending, functions, mapVars, proxies, log, enrichVars>>

DotNetFactOf(folder) == IF folder = "root" THEN "dotNetRoot" ELSE "dotNetSub"

JavaFactOf(folder) ==
    IF folder = "root" THEN "javaRoot"
    ELSE IF folder = "sub" THEN "javaSub" ELSE "javaPublish"

\* isDotNetProjectAsync(hostJsonFolder)
ProbeDotNet ==
    /\ pc = "probeDotNet"
    /\ \E r \in YesNo :
          /\ Probe(DotNetFactOf(hostJsonFolder), r)
          /\ facts' = [facts EXCEPT ![DotNetFactOf(hostJsonFolder)] = r]
          /\ Goto("probeDotNet", IF r = "yes" THEN "publish" ELSE "probeJava")
    /\ UNCHANGED <<inputVars, viewListVars, projectFolder, hostJsonFolder, tempFolders,
                   isDotNetIsolatedProject, isJavaProject, pending, functions, mapVars,
                   proxies, log, enrichVars>>

\* Publish without the push of publishTempFolder to tempFolders.
PublishUnrecorded ==
    /\ pc = "publish"
    /\ UNCHANGED tempFolders
    /\ \E published \in BOOLEAN :
          IF published
          THEN /\ hostJsonFolder' = "publish"
               /\ Goto("publish", "probeJava")
          ELSE /\ UNCHANGED hostJsonFolder
               /\ Throw("publish")
    /\ UNCHANGED <<inputVars, viewListVars, facts, projectFolder, isDotNetIsolatedProject, isJavaProject,
                   pending, functions, mapVars, proxies, log, enrichVars>>

\* If it is a C# function, we'll need to dotnet publish first.  The temp
\* folder is recorded before the publish command runs.
Publish ==
    /\ pc = "publish"
    /\ tempFolders' = Append(tempFolders, "publishTempFolder")
    /\ \E published \in BOOLEAN :
          IF published
          THEN /\ hostJsonFolder' = "publish"
               /\ Goto("publish", "probeJava")
          ELSE /\ UNCHANGED hostJsonFolder
               /\ Throw("publish")
    /\ UNCHANGED <<inputVars, viewListVars, facts, projectFolder, isDotNetIsolatedProject, isJavaProject,
                   pending, functions, mapVars, proxies, log, enrichVars>>

\* isJavaProjectAsync(hostJsonFolder)
ProbeJava ==
    /\ pc = "probeJava"
    /\ \E r \in YesNo :
          /\ Probe(JavaFactOf(hostJsonFolder), r)
          /\ facts' = [facts EXCEPT ![JavaFactOf(hostJsonFolder)] = r]
          /\ isJavaProject' = (r = "yes")
          /\ Goto("probeJava", "branch")
    /\ UNCHANGED <<inputVars, viewListVars, projectFolder, hostJsonFolder, tempFolders,
                   isDotNetIsolatedProject, pending, functions, mapVars, proxies, log,
                   enrichVars>>

\* functions = await traverseJavaProject(projectFolder), then the enrichment.
TraverseJavaProject ==
    /\ pc = "branch"
    /\ isJavaProject
    /\ functions' = FunctionsFrom(dirs, NameSeq)
    /\ Goto("traverseJavaProject", "map")
    /\ UNCHANGED <<inputVars, viewListVars, facts, projectFolder, hostJsonFolder, tempFolders,
                   isDotNetIsolatedProject, isJavaProject, pending, mapVars, proxies, log,
                   enrichVars>>

\* functions = await traverseDotNetIsolatedProject(projectFolder); the branch
\* ends there.
TraverseDotNetIsolatedProject ==
    /\ pc = "branch"
    /\ ~isJavaProject
    /\ isDotNetIsolatedProject
    /\ functions' = FunctionsFrom(dirs, NameSeq)
    /\ Goto("traverseDotNetIsolatedProject", "proxies")
    /\ UNCHANGED <<inputVars, viewListVars, facts, projectFolder, hostJsonFolder, tempFolders,
                   isDotNetIsolatedProject, isJavaProject, pending, mapVars, proxies, log,
                   enrichVars>>

\* Reading function.json files, in parallel: one task per directory entry.
ReadDir ==
    /\ pc = "branch"
    /\ ~isJavaProject
    /\ ~isDotNetIsolatedProject
    /\ pending' = FuncNames
    /\ Goto("readdir", "readFunctionJson")
    /\ UNCHANGED <<inputVars, viewListVars, facts, projectFolder, hostJsonFolder, tempFolders,
                   isDotNetIsolatedProject, isJavaProject, functions, mapVars, proxies, log,
                   enrichVars>>

\* One task runs to its end: the entry is skipped, or its function.json is
\* parsed and stored, or the failure to parse it is logged.
ReadFunctionJson(functionName) ==
    /\ pc = "readFunctionJson"
    /\ functionName \in pending
    /\ pending' = pending \ {functionName}
    /\ LET dir == dirs[functionName]
       IN  /\ functions' =
                 IF dir.kind \in {"valid", "noBindings"}
                 THEN Append(functions,
                             FunctionInfo(functionName, dir.bindings, dir.kind = "valid"))
                 ELSE functions
           /\ log' =
                 IF dir.kind = "unparseable"
                 THEN log \cup {[msg |-> "Failed to parse", file |-> functionName]}
                 ELSE log
    /\ UNCHANGED <<pc, outcome, steps, inputVars, viewListVars, facts, projectFolder, hostJsonFolder,
                   tempFolders, isDotNetIsolatedProject, isJavaProject, mapVars, proxies,
                   enrichVars>>

\* await Promise.all(promises)
AwaitAllDescriptors ==
    /\ pc = "readFunctionJson"
    /\ pending = {}
    /\ Goto("readFunctionJson", "map")
    /\ UNCHANGED <<inputVars, viewListVars, facts, projectFolder, hostJsonFolder, tempFolders,
                   isDotNetIsolatedProject, isJavaProject, pending, functions, mapVars,
                   proxies, log, enrichVars>>

\* ------------------------------------- mapOrchestratorsAndActivitiesAsync

\* The four name lists and, for each, the functions whose code was found.
Buckets(fns, src) ==
    [orchestratorNames |-> orchestratorNamesOf(fns),
     activityNames |-> activityNamesOf(fns),
     entityNames |-> entityNamesOf(fns),
     otherFunctionNames |-> otherFunctionNamesOf(fns),
     orchestrators |-> getFunctionsAndTheirCodesAsync(orchestratorNamesOf(fns), src),
     activities |-> getFunctionsAndTheirCodesAsync(activityNamesOf(fns), src),
     entities |-> getFunctionsAndTheirCodesAsync(entityNamesOf(fns), src),
     otherFunctions |-> getFunctionsAndTheirCodesAsync(otherFunctionNamesOf(fns), src)]

\* The project kind is probed on projectFolder; then the functions are
\* classified by their bindings (which throws on a function whose bindings
\* are undefined) and their code is looked up.
MapLocate ==
    /\ pc = "map"
    /\ \E kind \in {"dotNet", "java", "other"} :
          /\ IF kind = "dotNet"
             THEN /\ Probe("dotNetRoot", "yes")
                  /\ facts' = [facts EXCEPT !.dotNetRoot = "yes"]
             ELSE /\ Probe("dotNetRoot", "no")
                  /\ Probe("javaRoot", IF kind = "java" THEN "yes" ELSE "no")
                  /\ facts' = [facts EXCEPT !.dotNetRoot = "no",
                                            !.javaRoot = IF kind = "java" THEN "yes" ELSE "no"]
          /\ projectKind' = kind
    /\ IF \E i \in DOMAIN functions : ~functions[i].hasBindings
       THEN /\ Throw("map")
            /\ UNCHANGED located
       ELSE /\ located' = Buckets(functions, source)
            /\ Goto("map", "passes")
    /\ UNCHANGED <<inputVars, viewListVars, projectFolder, hostJsonFolder, tempFolders,
                   isDotNetIsolatedProject, isJavaProject, pending, functions, proxies, log,
                   enrichVars>>

MapPasses ==
    /\ pc = "passes"
    /\ functions' =
          MapPassesOf(functions, projectKind, located.orchestrators, located.activities,
                      located.entities, located.otherFunctions, located.activityNames)
    /\ Goto("passes", "proxies")
    /\ UNCHANGED <<inputVars, viewListVars, facts, projectFolder, hostJsonFolder, tempFolders,
                   isDotNetIsolatedProject, isJavaProject, pending, mapVars, proxies, log,
                   enrichVars>>

\* --------------------------------------------------------- readProxiesJson

ProxyNames == {"P1", "P2"}

\* The raw text of proxies.json, as far as readProxiesJson looks at it: a
\* sequence of items, each the text of a key followed by its colon
\* ("name":), a key that JSON.parse reads as name but that is spelled with an
\* escape sequence, a newline character, or one other character.
ProxyKey(name) == [item |-> "key", name |-> name]

EscapedKey(name) == [item |-> "escaped", name |-> name]

Newline == [item |-> "newline", name |-> ""]

Blank == [item |-> "blank", name |-> ""]

NameLength(name) == IF name \in ProxyNames THEN 2 ELSE 1

\* The number of characters of an item: "name": is two quotes, the name and
\* a colon; an escaped key spells one character of the name as \uXXXX.
ItemLength(it) ==
    IF it.item = "key" THEN NameLength(it.name) + 3
    ELSE IF it.item = "escaped" THEN NameLength(it.name) + 8
    ELSE 1

\* The offset of the first character of item i.
RECURSIVE Offset(_, _)
Offset(text, i) == IF i <= 1 THEN 0 ELSE Offset(text, i - 1) + ItemLength(text[i - 1])

\* The keys of the proxies object that JSON.parse yields.
ProxyNamesOf(text) ==
    {text[i].name : i \in {j \in DOMAIN text : text[j].item \in {"key", "escaped"}}}

\* new RegExp(`"${proxyName}"\\s*:`): the name goes into the pattern as it
\* is.  A name that is an unbalanced parenthesis is no pattern (SyntaxError);
\* a dot in the pattern matches any character but a newline.
RegexThrows(proxyName) == proxyName = "("

RegexMatchesItem(proxyName, it) ==
    /\ it.item = "key"
    /\ \/ it.name = proxyName
       \/ proxyName = "." /\ NameLength(it.name) = 1

\* proxyNameRegex.exec(proxiesJsonString): the first item matched, 0 if none.
proxyNameRegexExec(proxyName, text) ==
    LET hits == {i \in DOMAIN text : RegexMatchesItem(proxyName, text[i])}
    IN  IF hits = {} THEN 0 ELSE CHOOSE i \in hits : \A j \in hits : i <= j

\* 1 plus the number of newline characters before pos.
posToLineNr(text, pos) ==
    1 + Cardinality({i \in DOMAIN text : text[i] = Newline /\ Offset(text, i) < pos})

\* Also adding filePath and lineNr.
AnnotatedProxy(proxyName, text, notAddedToCsProjFile) ==
    LET match == proxyNameRegexExec(proxyName, text)
        pos == Offset(text, match)
    IN  [name |-> proxyName, filePath |-> "proxies.json",
         warningNotAddedToCsProjFile |-> notAddedToCsProjFile,
         pos |-> IF match = 0 THEN Undefined ELSE pos,
         lineNr |-> IF match = 0 THEN Undefined ELSE posToLineNr(text, pos)]

ProxiesJson(state, text) == [state |-> state, names |-> ProxyNamesOf(text), text |-> text]

\* proxies.json: missing, not valid JSON, valid JSON without a proxies
\* object, or valid JSON with one.
ProxiesJsonFiles ==
    {ProxiesJson(st, <<>>) : st \in {"absent", "malformed", "noProxies"}}
        \cup {ProxiesJson("valid", <<ProxyKey("P1"), Newline, ProxyKey("P2")>>)}

\* What the try block of readProxiesJson yields for a file that parses: the
\* annotated proxies, or the SyntaxError of a proxy name that is no pattern.
TryAnnotate(file, notAddedToCsProjFile) ==
    IF \E n \in file.names : RegexThrows(n)
    THEN [proxies |-> {}, caught |-> TRUE]
    ELSE [proxies |-> {AnnotatedProxy(n, file.text, notAddedToCsProjFile) : n \in file.names},
          caught |-> FALSE]

\* readProxiesJson with JSON.parse outside the try block.
readProxiesJsonUncaught(file, notAddedToCsProjFile) ==
    LET tried == TryAnnotate(file, notAddedToCsProjFile)
    IN  [proxies |-> tried.proxies,
         logged |-> IF tried.caught
                    THEN {[msg |-> "Failed to parse", file |-> "proxies.json"]} ELSE {},
         thrown |-> file.state = "malformed"]

\* Tries to read proxies.json file from project folder.
readProxiesJson(file, notAddedToCsProjFile) ==
    IF file.state = "malformed"
    THEN [proxies |-> {}, logged |-> {[msg |-> "Failed to parse", file |-> "proxies.json"]},
          thrown |-> FALSE]
    ELSE LET tried == TryAnnotate(file, notAddedToCsProjFile)
         IN  [proxies |-> tried.proxies,
              logged |-> IF tried.caught
                         THEN {[msg |-> "Failed to parse", file |-> "proxies.json"]} ELSE {},
              thrown |-> FALSE]

\* What findFileRecursivelyAsync(projectFolder, '.+\\.csproj$', true) finds:
\* no file, a file without text, a file whose text has no entry for
\* proxies.json, or a file whose text has one.
CsProjFiles == {"none", "empty", "lacks", "registers"}

CsProjFound(csProjFile) == csProjFile \in {"empty", "lacks", "registers"}

CsProjHasCode(csProjFile) == csProjFile \in {"lacks", "registers"}

proxiesJsonEntryRegexExec(csProjFile) == csProjFile = "registers"

\* Also checking that proxies.json is added to .csproj file.
NotAddedToCsProjFile(isDotNet, csProjFile) ==
    /\ isDotNet = "yes"
    /\ CsProjFound(csProjFile)
    /\ CsProjHasCode(csProjFile)
    /\ ~proxiesJsonEntryRegexExec(csProjFile)

\* Also reading proxies, and returning the result.  Only a proxies.json
\* with a proxies object has the kind of the project probed, and only a
\* .NET project has the .csproj searched for.
ReadProxiesJson ==
    /\ pc = "proxies"
    /\ \E file \in ProxiesJsonFiles, d \in YesNo, csProjFile \in CsProjFiles \cup {"?"} :
          /\ (csProjFile # "?") <=> (file.state = "valid" /\ d = "yes")
          /\ IF file.state = "valid"
             THEN /\ Probe("dotNetRoot", d)
                  /\ facts' = [facts EXCEPT !.dotNetRoot = d, !.proxiesJson = file.state,
                                            !.proxiesText = file.text,
                                            !.csProjFile = csProjFile]
             ELSE /\ d = "no"
                  /\ facts' = [facts EXCEPT !.proxiesJson = file.state]
          /\ LET read == readProxiesJson(file, NotAddedToCsProjFile(d, csProjFile))
             IN  /\ proxies' = read.proxies
                 /\ log' = log \cup read.logged
                 /\ IF read.thrown THEN Throw("proxies") ELSE Return("proxies")
    /\ UNCHANGED <<inputVars, viewListVars, projectFolder, hostJsonFolder, tempFolders,
                   isDotNetIsolatedProject, isJavaProject, pending, functions, mapVars,
                   enrichVars>>

\* ------------------------------------------------------- specifications

OpSeq == <<"callActivity", "callSubOrchestrator", "startNew", "signalEntity">>

\* A body that holds every call form for every function name and awaits and
\* raises every event: every traversal regex matches it.
DenseCode ==
    [k \in 1..(4 * NumFuncs) |-> Stmt(OpSeq[((k - 1) % 4) + 1], NamePool[((k - 1) \div 4) + 1])]
        \o <<ContinueAsNewStmt>>
        \o [k \in 1..NumEvents |-> Stmt("waitForExternalEvent", EventPool[k])]
        \o [k \in 1..NumEvents |-> Stmt("raiseEvent", EventPool[k])]

DenseAttrs == <<Binding("httpTrigger", "in"), Binding("blob", "in"), Binding("blob", "out")>>

\* The projects of the traversal: any function directories, and source
\* files in which either the code of every function is found or of none.
SpecSources == {[n \in FuncNames |-> NoSource],
                [n \in FuncNames |-> Source(TRUE, DenseCode, DenseAttrs)]}

SpecDirs ==
    {Dir("valid", b) : b \in {OrchestratorBindings, ActivityBindings, HttpBindings}}
        \cup BrokenDirs

Init ==
    /\ pc = "start"
    /\ StartState
    /\ dirs \in [FuncNames -> SpecDirs]
    /\ source \in SpecSources
    /\ NoEnrich
    /\ NoMonitorViewList

Next ==
    \/ UseLocalFolder
    \/ CloneFromGitHub
    \/ FindHostJson
    \/ ProbeIsolated
    \/ ProbeDotNet
    \/ Publish
    \/ ProbeJava
    \/ TraverseJavaProject
    \/ TraverseDotNetIsolatedProject
    \/ ReadDir
    \/ \E functionName \in FuncNames : ReadFunctionJson(functionName)
    \/ AwaitAllDescriptors
    \/ MapLocate
    \/ MapPasses
    \/ ReadProxiesJson

Spec == Init /\ [][Next]_vars

\* --- graph mapping on its own: mapOrchestratorsAndActivitiesAsync applied
\* --- to the functions map of a project whose descriptors were all read

Body(code) == Source(TRUE, code, <<>>)

AllStmts == CallStmts \cup {ContinueAsNewStmt} \cup WaitStmts \cup RaiseStmts

AllWaits == [k \in 1..NumEvents |-> Stmt("waitForExternalEvent", EventPool[k])]

AllRaises == [k \in 1..NumEvents |-> Stmt("raiseEvent", EventPool[k])]

\* Every function has an empty body, but for one function whose body holds
\* one statement, or the same statement twice, or whose code is not found.
OneStmtSources ==
    {[n \in FuncNames |-> IF n = f THEN src ELSE EmptySource] :
        f \in FuncNames,
        src \in {NoSource, EmptySource} \cup {Body(<<st>>) : st \in AllStmts}
                    \cup {Body(<<st, st>>) : st \in CallStmts}}

\* Bodies that await events (all of them once, or the first one twice) and
\* bodies that raise events (one of them, or all of them).
EventBodies ==
    {Body(<<>>), Body(AllWaits), Body(<<AllWaits[1], AllWaits[1]>>), Body(AllRaises)}
        \cup {Body(<<st>>) : st \in RaiseStmts}

EventSources == [FuncNames -> EventBodies]

\* Bodies that hold every call form: in all functions, in one function, or
\* in all functions but one whose code is not found.
DenseSources ==
    {[n \in FuncNames |-> Source(TRUE, DenseCode, DenseAttrs)]}
        \cup {[n \in FuncNames |-> IF n = f THEN Source(TRUE, DenseCode, DenseAttrs)
                                    ELSE EmptySource] : f \in FuncNames}
        \cup {[n \in FuncNames |-> IF n = f THEN NoSource
                                    ELSE Source(TRUE, DenseCode, DenseAttrs)] : f \in FuncNames}

EventDirs == {Dir("valid", b) : b \in {OrchestratorBindings, HttpBindings}}

\* The state in which mapOrchestratorsAndActivitiesAsync is called for a
\* local script-based or published project: every function.json was read.
GraphState(d, src) ==
    /\ pc = "map"
    /\ outcome = "running"
    /\ steps = <<>>
    /\ dirs = d
    /\ source = src
    /\ facts = [NoFacts EXCEPT !.hostJson = "root"]
    /\ projectFolder = "local"
    /\ hostJsonFolder = "root"
    /\ tempFolders = <<>>
    /\ isDotNetIsolatedProject = FALSE
    /\ isJavaProject = FALSE
    /\ pending = {}
    /\ functions = FunctionsFrom(d, NameSeq)
    /\ projectKind = "other"
    /\ located = NoBuckets
    /\ proxies = {}
    /\ log = {}
    /\ NoEnrich
    /\ NoMonitorViewList

InitGraph ==
    \/ \E d \in [FuncNames -> ValidDirs], src \in OneStmtSources \cup DenseSources :
          GraphState(d, src)
    \/ \E d \in [FuncNames -> EventDirs], src \in EventSources : GraphState(d, src)

NextGraph == MapLocate \/ MapPasses

SpecGraph == InitGraph /\ [][NextGraph]_vars

\* --- binding enrichment on its own: the merge and direction inference of
\* --- one function, applied to a descriptor list and a candidate list, and
\* --- then once more to its own result with the same candidates

EnrichTypes == {"blob", "queue"}

EnrichBindingsUniverse == {Binding(t, d) : t \in EnrichTypes, d \in {Undefined, "in", "out"}}

InitEnrich ==
    /\ pc = "enrich"
    /\ StartState
    /\ dirs = [n \in FuncNames |-> Dir("notAFunction", <<>>)]
    /\ source = [n \in FuncNames |-> NoSource]
    /\ enrichInput \in
          [json : SeqsUpTo(EnrichBindingsUniverse, MaxBindings),
           code : SeqsUpTo(EnrichBindingsUniverse, MaxBindings)]
    /\ enrichRuns = <<>>
    /\ NoMonitorViewList

Enrich ==
    /\ pc = "enrich"
    /\ Len(enrichRuns) < 2
    /\ enrichRuns' =
          Append(enrichRuns,
                 EnrichBindings(IF enrichRuns = <<>> THEN enrichInput.json
                                ELSE enrichRuns[Len(enrichRuns)],
                                enrichInput.code))
    /\ UNCHANGED <<pc, outcome, steps, inputVars, viewListVars, facts, projectFolder, hostJsonFolder,
                   tempFolders, isDotNetIsolatedProject, isJavaProject, pending, functions,
                   mapVars, proxies, log, enrichInput>>

NextEnrich == Enrich

SpecEnrich == InitEnrich /\ [][NextEnrich]_vars

\* --- proxy annotation on its own: readProxiesJson applied to a proxies.json
\* --- that parses, whose keys are all proxies

ProxyItems ==
    {ProxyKey("a"), ProxyKey("."), ProxyKey("("), EscapedKey("a"), Newline, Blank}

ProxiesTexts == SeqsUpTo(ProxyItems, MaxText)

InitProxies ==
    /\ pc = "proxies"
    /\ outcome = "running"
    /\ steps = <<>>
    /\ dirs = [n \in FuncNames |-> Dir("notAFunction", <<>>)]
    /\ source = [n \in FuncNames |-> NoSource]
    /\ \E text \in ProxiesTexts :
          facts = [NoFacts EXCEPT !.hostJson = "root", !.proxiesText = text]
    /\ projectFolder = "local"
    /\ hostJsonFolder = "root"
    /\ tempFolders = <<>>
    /\ isDotNetIsolatedProject = FALSE
    /\ isJavaProject = FALSE
    /\ pending = {}
    /\ functions = <<>>
    /\ projectKind = "other"
    /\ located = NoBuckets
    /\ proxies = {}
    /\ log = {}
    /\ NoEnrich
    /\ NoMonitorViewList

\* const proxies = await readProxiesJson(projectFolder, log), for the
\* proxies.json of the initial state.
ReadProxiesJsonText ==
    /\ pc = "proxies"
    /\ \E d \in YesNo, csProjFile \in CsProjFiles \cup {"?"} :
          /\ (csProjFile # "?") <=> (d = "yes")
          /\ facts' = [facts EXCEPT !.dotNetRoot = d, !.proxiesJson = "valid",
                                    !.csProjFile = csProjFile]
          /\ LET read == readProxiesJson(ProxiesJson("valid", facts.proxiesText),
                                          NotAddedToCsProjFile(d, csProjFile))
             IN  /\ proxies' = read.proxies
                 /\ log' = log \cup read.logged
                 /\ IF read.thrown THEN Throw("proxies") ELSE Return("proxies")
    /\ UNCHANGED <<inputVars, viewListVars, projectFolder, hostJsonFolder, tempFolders,
                   isDotNetIsolatedProject, isJavaProject, pending, functions, mapVars,
                   enrichVars>>

NextProxies == ReadProxiesJsonText

SpecProxies == InitProxies /\ [][NextProxies]_vars

\* ------------------------------------------------------- MonitorViewList

MaxViews == 3
MaxBackends == 2
MaxCalls == 1

ConnStrings == {"c1", "c2"}

HubNames == {"h1", "h2"}

traversalVars ==
    <<pc, outcome, steps, dirs, source, facts, projectFolder, hostJsonFolder,
      tempFolders, isDotNetIsolatedProject, isJavaProject, pending, functions,
      projectKind, located, proxies, log, enrichInput, enrichRuns>>

\* StorageConnectionSettings.GetConnStringHashKey(storageConnString).
GetConnStringHashKey(storageConnString) ==
    CASE storageConnString = "c1" -> "k1"
      [] storageConnString = "c2" -> "k2"

\* new StorageConnectionSettings(storageConnString, hubName).
StorageConnectionSettings(storageConnString, hubName) ==
    [storageConnString |-> storageConnString,
     hubName |-> hubName,
     connStringHashKey |-> GetConnStringHashKey(storageConnString),
     hashKey |-> <<GetConnStringHashKey(storageConnString), hubName>>]

ConnSettings == {StorageConnectionSettings(c, h) : c \in ConnStrings, h \in HubNames}

\* new MonitorView(context, backend, hubName, ...).
MonitorView(backend, connSettings) ==
    [backend |-> backend, storageConnectionSettings |-> connSettings, cleanedUp |-> FALSE]

\* new BackendProcess(extensionPath, connSettings, () => detachBackend, log).
BackendProcess(connSettings) ==
    [storageConnectionSettings |-> connSettings, state |-> "running"]

\* backendProcess.cleanup() is invoked: a running backend starts to stop.
InvokeCleanup(processes, stopping) ==
    [b \in DOMAIN processes |->
        IF b \in stopping /\ processes[b].state = "running"
        THEN [processes[b] EXCEPT !.state = "cleaning"]
        ELSE processes[b]]

\* The registries and the objects they refer to.
List ==
    [monitorViews |-> monitorViews, backends |-> backends, views |-> views,
     backendProcesses |-> backendProcesses]

SetList(list) ==
    /\ monitorViews' = list.monitorViews
    /\ backends' = list.backends
    /\ views' = list.views
    /\ backendProcesses' = list.backendProcesses

\* this._monitorViews[hashKey], 0 for undefined.
ViewAt(list, hashKey) ==
    IF \E i \in DOMAIN list.monitorViews : list.monitorViews[i].key = hashKey
    THEN list.monitorViews[CHOOSE i \in DOMAIN list.monitorViews :
                               list.monitorViews[i].key = hashKey].view
    ELSE 0

\* this._backends[connStringHashKey], 0 for undefined.
BackendAt(list, connStringHashKey) ==
    IF \E e \in list.backends : e.key = connStringHashKey
    THEN (CHOOSE e \in list.backends : e.key = connStringHashKey).backend
    ELSE 0

\* getOrAddBackend that never returns the existing backend.
getOrAddBackendAlwaysNew(list, connSettings) ==
    LET backendProcess == Len(list.backendProcesses) + 1
    IN  [list |-> [list EXCEPT
                      !.backendProcesses = Append(@, BackendProcess(connSettings)),
                      !.backends = {e \in @ : e.key # connSettings.connStringHashKey}
                                      \cup {[key |-> connSettings.connStringHashKey,
                                             backend |-> backendProcess]}],
         backend |-> backendProcess]

\* If a backend for this connection already exists, then just returning the
\* existing one.
getOrAddBackend(list, connSettings) ==
    LET existing == BackendAt(list, connSettings.connStringHashKey)
        backendProcess == Len(list.backendProcesses) + 1
    IN  IF existing # 0
        THEN [list |-> list, backend |-> existing]
        ELSE [list |-> [list EXCEPT
                           !.backendProcesses = Append(@, BackendProcess(connSettings)),
                           !.backends = @ \cup {[key |-> connSettings.connStringHashKey,
                                                 backend |-> backendProcess]}],
              backend |-> backendProcess]

\* Creates a new MonitorView with provided connection settings.
getOrCreateFromStorageConnectionSettings(list, connSettings) ==
    LET existing == ViewAt(list, connSettings.hashKey)
        added == getOrAddBackend(list, connSettings)
        monitorView == Len(list.views) + 1
    IN  IF existing # 0
        THEN [list |-> list, view |-> existing]
        ELSE [list |-> [added.list EXCEPT
                           !.views = Append(@, MonitorView(added.backend, connSettings)),
                           !.monitorViews = Append(@, [key |-> connSettings.hashKey,
                                                       view |-> monitorView])],
              view |-> monitorView]

\* The model creates at most MaxViews views and MaxBackends backends.
WithinBounds(list) ==
    /\ Len(list.views) <= MaxViews
    /\ Len(list.backendProcesses) <= MaxBackends

\* The views of the registry, as a set of object numbers.
RegisteredViews(list) == {list.monitorViews[i].view : i \in DOMAIN list.monitorViews}

RegisteredBackends(list) == {e.backend : e \in list.backends}

\* monitorView.cleanup() is invoked on the views of the set.
CloseViews(allViews, closing) ==
    [v \in DOMAIN allViews |->
        IF v \in closing THEN [allViews[v] EXCEPT !.cleanedUp = TRUE] ELSE allViews[v]]

\* detachBackend up to its await: closing all views related to this
\* connection, and stopping the background process if there is one.
DetachBackendStart(list, storageConnString) ==
    LET connStringHashKey == GetConnStringHashKey(storageConnString)
        Related(v) ==
            list.views[v].storageConnectionSettings.connStringHashKey = connStringHashKey
        backendProcess == BackendAt(list, connStringHashKey)
    IN  [list |-> [list EXCEPT
                      !.views = CloseViews(@, {v \in RegisteredViews(list) : Related(v)}),
                      !.monitorViews = SelectSeq(@, LAMBDA e : ~Related(e.view)),
                      !.backendProcesses =
                          IF backendProcess = 0 THEN @ ELSE InvokeCleanup(@, {backendProcess})],
         awaits |-> IF backendProcess = 0 THEN {} ELSE {backendProcess},
         suspends |-> backendProcess # 0]

\* detachBackend after its await: delete this._backends[connStringHashKey].
DetachBackendEnd(list, storageConnString) ==
    [list EXCEPT !.backends = {e \in @ : e.key # GetConnStringHashKey(storageConnString)}]

\* connStringHashes.indexOf(connStringHashKey), counted from 1; 0 if absent.
IndexOf(s, x) ==
    IF \E i \in DOMAIN s : s[i] = x
    THEN CHOOSE i \in DOMAIN s : s[i] = x /\ \A j \in 1..(i - 1) : s[j] # x
    ELSE 0

\* connStringHashes.splice(i, 1).
Splice(s, i) == [j \in 1..(Len(s) - 1) |-> IF j < i THEN s[j] ELSE s[j + 1]]

RECURSIVE SpliceAll(_, _)
\* while ((i = connStringHashes.indexOf(connStringHashKey)) >= 0) splice.
SpliceAll(s, x) == IF IndexOf(s, x) = 0 THEN s ELSE SpliceAll(Splice(s, IndexOf(s, x)), x)

\* forgetConnectionString after its await: the secret is deleted and the
\* hash is taken out of the persisted list, if there is a list.
ForgetTail(storageConnString) ==
    LET connStringHashKey == GetConnStringHashKey(storageConnString)
    IN  /\ secrets' = {e \in secrets : e.key # connStringHashKey}
        /\ connStringHashes' =
              IF ~connStringHashes.defined THEN connStringHashes
              ELSE [connStringHashes EXCEPT !.value = SpliceAll(@, connStringHashKey)]

\* saveConnectionString up to its await.
SaveConnectionString(connSettings) ==
    LET old == IF connStringHashes.defined THEN connStringHashes.value ELSE <<>>
    IN  /\ connStringHashes' =
              [defined |-> TRUE,
               value |-> IF connSettings.connStringHashKey \in Range(old) THEN old
                         ELSE Append(old, connSettings.connStringHashKey)]
        /\ secrets' = {e \in secrets : e.key # connSettings.connStringHashKey}
                         \cup {[key |-> connSettings.connStringHashKey,
                                value |-> connSettings.storageConnString]}

\* A suspended call and the backend cleanups it awaits.
Suspended(op, conn, hub, awaits) == [op |-> op, conn |-> conn, hub |-> hub, awaits |-> awaits]

Settled(call) == \A b \in call.awaits : backendProcesses[b].state = "cleaned"

RemoveAt(s, i) == [j \in 1..(Len(s) - 1) |-> IF j < i THEN s[j] ELSE s[j + 1]]

\* getOrCreateFromStorageConnectionSettings(connSettings), called from the
\* commands of the extension.
GetOrCreateFromStorageConnectionSettings ==
    /\ \E connSettings \in ConnSettings :
          LET got == getOrCreateFromStorageConnectionSettings(List, connSettings)
          IN  /\ WithinBounds(got.list)
              /\ SetList(got.list)
              /\ returned' = Call("getOrCreateFromStorageConnectionSettings",
                                  connSettings.storageConnString, connSettings.hubName,
                                  got.view, TRUE)
    /\ UNCHANGED <<traversalVars, calls, secrets, connStringHashes>>

\* getOrAdd(false) with a view in the list: the first one is returned.
GetOrAddExisting ==
    /\ monitorViews # <<>>
    /\ returned' = Call("getOrAdd", Undefined, Undefined, monitorViews[1].view, TRUE)
    /\ UNCHANGED <<traversalVars, monitorViews, backends, views, backendProcesses, calls,
                   secrets, connStringHashes>>

\* getOrAdd whose prompt is cancelled (null is returned) or answered with an
\* invalid connection string (an error is thrown).
GetOrAddRejected ==
    /\ \E answer \in {"cancelled", "invalid"} :
          returned' = Call("getOrAdd", answer, Undefined, 0, TRUE)
    /\ UNCHANGED <<traversalVars, monitorViews, backends, views, backendProcesses, calls,
                   secrets, connStringHashes>>

\* getOrAdd whose prompt is answered: persisting the provided connection
\* string, up to the await of saveConnectionString.
GetOrAddSave ==
    /\ Len(calls) < MaxCalls
    /\ \E connSettings \in ConnSettings :
          /\ SaveConnectionString(connSettings)
          /\ calls' = Append(calls, Suspended("getOrAdd", connSettings.storageConnString,
                                              connSettings.hubName, {}))
          /\ returned' = Call("getOrAdd", connSettings.storageConnString,
                              connSettings.hubName, 0, FALSE)
    /\ UNCHANGED <<traversalVars, monitorViews, backends, views, backendProcesses>>

\* getOrAdd after saveConnectionString: the view is created or found.
GetOrAddResume ==
    /\ \E i \in DOMAIN calls :
          /\ calls[i].op = "getOrAdd"
          /\ LET got == getOrCreateFromStorageConnectionSettings(
                            List, StorageConnectionSettings(calls[i].conn, calls[i].hub))
             IN  /\ WithinBounds(got.list)
                 /\ SetList(got.list)
                 /\ returned' = Call("getOrAdd", calls[i].conn, calls[i].hub, got.view, TRUE)
          /\ calls' = RemoveAt(calls, i)
    /\ UNCHANGED <<traversalVars, secrets, connStringHashes>>

\* cleanup() up to the returned promise: stops all backend processes and
\* closes all views.
Cleanup ==
    /\ Len(calls) < MaxCalls
    /\ views' = CloseViews(views, RegisteredViews(List))
    /\ monitorViews' = <<>>
    /\ backends' = {}
    /\ backendProcesses' = InvokeCleanup(backendProcesses, RegisteredBackends(List))
    /\ calls' = Append(calls, Suspended("cleanup", Undefined, Undefined,
                                        RegisteredBackends(List)))
    /\ returned' = Call("cleanup", Undefined, Undefined, 0, FALSE)
    /\ UNCHANGED <<traversalVars, secrets, connStringHashes>>

\* CleanupResume that does not wait for the backends.
CleanupResumeUnawaited ==
    /\ \E i \in DOMAIN calls :
          /\ calls[i].op = "cleanup"
          /\ calls' = RemoveAt(calls, i)
    /\ returned' = Call("cleanup", Undefined, Undefined, 0, TRUE)
    /\ UNCHANGED <<traversalVars, monitorViews, backends, views, backendProcesses, secrets,
                   connStringHashes>>

\* The promise of cleanup() completes: Promise.all of the backend cleanups.
CleanupResume ==
    /\ \E i \in DOMAIN calls :
          /\ calls[i].op = "cleanup"
          /\ Settled(calls[i])
          /\ calls' = RemoveAt(calls, i)
    /\ returned' = Call("cleanup", Undefined, Undefined, 0, TRUE)
    /\ UNCHANGED <<traversalVars, monitorViews, backends, views, backendProcesses, secrets,
                   connStringHashes>>

\* detachBackend(storageConnString), called by a command or by the backend
\* process: it returns at once if there is no backend, else it suspends.
DetachBackend ==
    /\ \E storageConnString \in ConnStrings :
          LET start == DetachBackendStart(List, storageConnString)
          IN  /\ SetList(start.list)
              /\ returned' = Call("detachBackend", storageConnString, Undefined, 0,
                                  ~start.suspends)
              /\ IF start.suspends
                 THEN /\ Len(calls) < MaxCalls
                      /\ calls' = Append(calls, Suspended("detachBackend", storageConnString,
                                                          Undefined, start.awaits))
                 ELSE UNCHANGED calls
    /\ UNCHANGED <<traversalVars, secrets, connStringHashes>>

\* detachBackend after await backendProcess.cleanup().
DetachBackendResume ==
    /\ \E i \in DOMAIN calls :
          /\ calls[i].op = "detachBackend"
          /\ Settled(calls[i])
          /\ SetList(DetachBackendEnd(List, calls[i].conn))
          /\ returned' = Call("detachBackend", calls[i].conn, Undefined, 0, TRUE)
          /\ calls' = RemoveAt(calls, i)
    /\ UNCHANGED <<traversalVars, secrets, connStringHashes>>

\* forgetConnectionString(storageConnString): it runs to its end if
\* detachBackend returns at once, else it suspends with detachBackend.
ForgetConnectionString ==
    /\ \E storageConnString \in ConnStrings :
          LET start == DetachBackendStart(List, storageConnString)
          IN  /\ SetList(start.list)
              /\ returned' = Call("forgetConnectionString", storageConnString, Undefined, 0,
                                  ~start.suspends)
              /\ IF start.suspends
                 THEN /\ Len(calls) < MaxCalls
                      /\ calls' = Append(calls, Suspended("forgetConnectionString",
                                                          storageConnString, Undefined,
                                                          start.awaits))
                      /\ UNCHANGED <<secrets, connStringHashes>>
                 ELSE /\ ForgetTail(storageConnString)
                      /\ UNCHANGED calls
    /\ UNCHANGED traversalVars

\* forgetConnectionString after await this.detachBackend(storageConnString).
ForgetConnectionStringResume ==
    /\ \E i \in DOMAIN calls :
          /\ calls[i].op = "forgetConnectionString"
          /\ Settled(calls[i])
          /\ SetList(DetachBackendEnd(List, calls[i].conn))
          /\ ForgetTail(calls[i].conn)
          /\ returned' = Call("forgetConnectionString", calls[i].conn, Undefined, 0, TRUE)
          /\ calls' = RemoveAt(calls, i)
    /\ UNCHANGED traversalVars

\* The promise of backendProcess.cleanup() completes.
BackendCleanupCompletes ==
    /\ \E b \in DOMAIN backendProcesses :
          /\ backendProcesses[b].state = "cleaning"
          /\ backendProcesses' = [backendProcesses EXCEPT ![b].state = "cleaned"]
          /\ returned' = Call("BackendProcess.cleanup",
                              backendProcesses[b].storageConnectionSettings.storageConnString,
                              Undefined, 0, TRUE)
    /\ UNCHANGED <<traversalVars, monitorViews, backends, views, calls, secrets,
                   connStringHashes>>

\* What an earlier session of the extension has persisted: the hashes of
\* three connection strings, two of them of no interest to this session,
\* and their secrets.
EarlierSession ==
    [connStringHashes |-> [defined |-> TRUE, value |-> <<"k8", "k1", "k9">>],
     secrets |-> {[key |-> "k8", value |-> "c8"], [key |-> "k1", value |-> "c1"],
                  [key |-> "k9", value |-> "c9"]}]

\* A new MonitorViewList, in a fresh installation or after an earlier
\* session.
InitViews ==
    /\ pc = "views"
    /\ StartState
    /\ dirs = [n \in FuncNames |-> Dir("notAFunction", <<>>)]
    /\ source = [n \in FuncNames |-> NoSource]
    /\ NoEnrich
    /\ monitorViews = <<>>
    /\ backends = {}
    /\ views = <<>>
    /\ backendProcesses = <<>>
    /\ calls = <<>>
    /\ \/ /\ secrets = {}
          /\ connStringHashes = [defined |-> FALSE, value |-> <<>>]
       \/ /\ secrets = EarlierSession.secrets
          /\ connStringHashes = EarlierSession.connStringHashes
    /\ returned = NoCall

NextViews ==
    \/ GetOrCreateFromStorageConnectionSettings
    \/ GetOrAddExisting
    \/ GetOrAddRejected
    \/ GetOrAddSave
    \/ GetOrAddResume
    \/ Cleanup
    \/ CleanupResume
    \/ DetachBackend
    \/ DetachBackendResume
    \/ ForgetConnectionString
    \/ ForgetConnectionStringResume
    \/ BackendCleanupCompletes

SpecViews == InitViews /\ [][NextViews]_vars

\* --- getOrCreateFromStorageConnectionSettings on its own.

NextCreate == GetOrCreateFromStorageConnectionSettings

SpecCreate == InitViews /\ [][NextCreate]_vars

\* ================================================================ claims

Ran(stage) == \E i \in DOMAIN steps : steps[i] = stage

\* The graph mapping has run to its end.
Mapped == Ran("passes")

\* What the project declares and holds, read off the inputs.
Declares(n, t) ==
    /\ dirs[n].kind = "valid"
    /\ \E i \in DOMAIN dirs[n].bindings : dirs[n].bindings[i].type = t

IsOrchestrator(n) == Declares(n, "orchestrationTrigger")

IsActivity(n) == Declares(n, "activityTrigger")

IsEntity(n) == Declares(n, "entityTrigger")

IsOther(n) == dirs[n].kind = "valid" /\ \A t \in DurableTriggers : ~Declares(n, t)

CodeFound(n) == source[n].found

CodeHas(n, op, arg) ==
    /\ source[n].found
    /\ \E i \in DOMAIN source[n].code : source[n].code[i] = Stmt(op, arg)

\* The event names the code of n awaits, one per await, in textual order.
AwaitedBy(n) ==
    LET waits == SelectSeq(source[n].code, LAMBDA st : st.op = "waitForExternalEvent")
    IN  [i \in DOMAIN waits |-> waits[i].arg]

\* C1: when no host.json is found under the project folder, the traversal
\* throws, returns no result, and runs none of the later stages (descriptor
\* reading, publish, graph mapping, proxy reading).
C1_MissingHostJsonIsFatal ==
    facts.hostJson = "none" =>
        /\ outcome = "thrown"
        /\ pc = "done"
        /\ functions = <<>>
        /\ proxies = {}
        /\ \A i \in DOMAIN steps : steps[i] \in {"local", "clone", "findHostJson"}

C1_Witness ==
    /\ facts.hostJson = "none"
    /\ outcome = "thrown"
    /\ Ran("clone")
    /\ Ran("findHostJson")

\* C2: for every orchestrator O whose code was found and every activity A:
\* if the call-activity pattern for A matches O's code, A.isCalledBy holds O
\* after the mapping; if it does not match, O occurs in A.isCalledBy only as
\* often as the sub-orchestrator pass put it there, so that
\* mapActivitiesToOrchestrator added no entry for O.
C2_ActivityCalledByOrchestrator ==
    Mapped =>
        \A O \in FuncNames, A \in FuncNames :
            (IsOrchestrator(O) /\ CodeFound(O) /\ IsActivity(A)) =>
                LET calledBy == Get(functions, A).isCalledBy
                    bySubOrchestratorPass ==
                        IF /\ IsOrchestrator(A)
                           /\ CodeFound(A)
                           /\ A # O
                           /\ CodeHas(O, "callSubOrchestrator", A)
                        THEN 1 ELSE 0
                IN  IF CodeHas(O, "callActivity", A)
                    THEN O \in Range(calledBy)
                    ELSE Occurrences(O, calledBy) = bySubOrchestratorPass

C2_Witness ==
    /\ Mapped
    /\ \E O \in FuncNames, A \in FuncNames :
          /\ O # A
          /\ IsOrchestrator(O)
          /\ IsActivity(A)
          /\ ~CodeFound(A)
          /\ CodeHas(O, "callActivity", A)
          /\ O \in Range(Get(functions, A).isCalledBy)

\* C3 as stated: after the mapping every orchestrator has isCalledByItself
\* true if its code holds a continue-as-new call and false if it does not.
C3_IsCalledByItselfTrueOrFalse ==
    Mapped =>
        \A O \in FuncNames :
            IsOrchestrator(O) =>
                Get(functions, O).isCalledByItself =
                    IF CodeHas(O, "continueAsNew", "") THEN "true" ELSE "false"

\* C3 as amended: after the mapping every orchestrator has isCalledByItself
\* true if its code was found and holds a continue-as-new call; otherwise
\* the field is left as the descriptor reader made it, unset, and is never
\* the boolean false.
C3_IsCalledByItselfTrueOrUnset ==
    Mapped =>
        \A O \in FuncNames :
            IsOrchestrator(O) =>
                Get(functions, O).isCalledByItself =
                    IF CodeHas(O, "continueAsNew", "") THEN "true" ELSE Undefined

C3_Witness ==
    /\ Mapped
    /\ \E O \in FuncNames, P \in FuncNames :
          /\ IsOrchestrator(O)
          /\ CodeHas(O, "continueAsNew", "")
          /\ Get(functions, O).isCalledByItself = "true"
          /\ IsOrchestrator(P)
          /\ CodeFound(P)
          /\ ~CodeHas(P, "continueAsNew", "")
          /\ Get(functions, P).isCalledByItself = Undefined

\* C4: for an orchestrator O whose code awaits events of pairwise distinct
\* names, O.isSignalledBy holds the entry {name: F, signalName: E} exactly
\* once for every awaited event name E and every function F of the "other"
\* bucket whose code raises E, and holds nothing else.
C4_SignalledByRaisersOfAwaitedEvents ==
    Mapped =>
        \A O \in FuncNames :
            (IsOrchestrator(O) /\ CodeFound(O) /\ NoDuplicates(AwaitedBy(O))) =>
                LET signalledBy == Get(functions, O).isSignalledBy
                    pairs == {<<F, E>> \in FuncNames \X Range(AwaitedBy(O)) :
                                 IsOther(F) /\ CodeHas(F, "raiseEvent", E)}
                IN  /\ \A p \in pairs :
                          Occurrences([name |-> p[1], signalName |-> p[2]], signalledBy) = 1
                    /\ \A i \in DOMAIN signalledBy :
                          <<signalledBy[i].name, signalledBy[i].signalName>> \in pairs

C4_Witness ==
    /\ Mapped
    /\ \E O \in FuncNames, F \in FuncNames, G \in FuncNames :
          /\ F # G
          /\ IsOrchestrator(O)
          /\ AwaitedBy(O) = <<"E1", "E2">>
          /\ IsOther(F) /\ source[F].code = <<Stmt("raiseEvent", "E1")>>
          /\ IsOther(G) /\ source[G].code = <<Stmt("raiseEvent", "E2")>>
          /\ Len(Get(functions, O).isSignalledBy) = 2
          /\ [name |-> F, signalName |-> "E1"] \in Range(Get(functions, O).isSignalledBy)
          /\ [name |-> G, signalName |-> "E2"] \in Range(Get(functions, O).isSignalledBy)

ProxiesWarning == [msg |-> "Failed to parse", file |-> "proxies.json"]

\* C5: reading a proxies.json that is not valid JSON ends the traversal with
\* a result, not an error: the proxies map is empty, the warning is logged,
\* and the functions map, the temp folders and the project folder are left
\* as they were before the read, which is also what reading a project
\* without proxies.json leaves them as.
C5_MalformedProxiesJsonIsNotFatal ==
    [][(pc = "proxies" /\ facts'.proxiesJson \in {"malformed", "absent"}) =>
            /\ outcome' = "returned"
            /\ proxies' = {}
            /\ functions' = functions
            /\ tempFolders' = tempFolders
            /\ projectFolder' = projectFolder
            /\ log' = IF facts'.proxiesJson = "malformed"
                      THEN log \cup {ProxiesWarning} ELSE log]_vars

C5_Witness ==
    /\ facts.proxiesJson = "malformed"
    /\ outcome = "returned"
    /\ proxies = {}
    /\ ProxiesWarning \in log
    /\ Mapped
    /\ \E i \in DOMAIN functions : functions[i].isCalledBy # <<>>

\* C6: in a project whose function.json files are read (script-based or
\* published in-process), a directory whose function.json fails to parse is
\* logged and left out of the functions map, every directory whose
\* function.json parses is in the returned functions map, and the traversal
\* returns a result.
C6_UnparseableDescriptorIsSkipped ==
    (pc = "done" /\ Ran("readFunctionJson")
        /\ \E n \in FuncNames : dirs[n].kind = "unparseable") =>
        /\ outcome = "returned"
        /\ \A n \in FuncNames :
              dirs[n].kind = "unparseable" =>
                  /\ [msg |-> "Failed to parse", file |-> n] \in log
                  /\ ~HasKey(functions, n)
        /\ \A n \in FuncNames :
              dirs[n].kind \in {"valid", "noBindings"} => HasKey(functions, n)

DistinctTypes(bindings) ==
    \A i, j \in DOMAIN bindings : bindings[i].type = bindings[j].type => i = j

\* C7: after the enrichment of a descriptor list whose bindings have
\* pairwise distinct types, the list holds at most one binding of any type,
\* whatever the candidate list.
C7_AtMostOneBindingPerType ==
    (Len(enrichRuns) >= 1 /\ DistinctTypes(enrichInput.json)) => DistinctTypes(enrichRuns[1])

\* C8: enriching the result of an enrichment once more, with the same
\* candidate list, leaves the binding list as it is: same bindings, same
\* order, same directions.
C8_EnrichmentIsIdempotent == Len(enrichRuns) = 2 => enrichRuns[2] = enrichRuns[1]

C8_Witness ==
    /\ Len(enrichRuns) = 2
    /\ Len(enrichRuns[1]) > Len(enrichInput.json)
    /\ \E i \in DOMAIN enrichInput.json :
          /\ enrichInput.json[i].direction = Undefined
          /\ enrichRuns[1][i].direction # Undefined

\* C9: the four name lists of mapOrchestratorsAndActivitiesAsync are
\* pairwise disjoint and together hold every function name: every function
\* is in exactly one of them.
C9_BucketsPartitionTheFunctions ==
    Ran("map") =>
        \A n \in Range(Keys(functions)) :
            Cardinality({b \in {"orchestratorNames", "activityNames", "entityNames",
                                "otherFunctionNames"} : n \in Range(located[b])}) = 1

\* C10: whatever the project kind, a traversal that returns a result has
\* passed its functions map through mapOrchestratorsAndActivitiesAsync.
C10_EveryKindIsEnriched == outcome = "returned" => Mapped

\* The answer of the managed-project probe of traverseFunctionProject, which
\* looks at the folder host.json was found in.
ManagedProjectFile == facts[DotNetFactOf(facts.hostJson)]

\* The answer of the JVM probe of traverseFunctionProject.
JvmMetadata ==
    IF "yes" \in {facts.javaRoot, facts.javaSub, facts.javaPublish} THEN "yes" ELSE "no"

\* The project kind by first match, in the order of the specification.
KindByFirstMatch ==
    IF isDotNetIsolatedProject THEN "dotNetIsolated"
    ELSE IF ManagedProjectFile = "yes" THEN "dotNetInProcess"
    ELSE IF JvmMetadata = "yes" THEN "java"
    ELSE "scriptBased"

\* C11: once the traversal has chosen its branch, the branch is the one of
\* the kind found by first match (isolated marker, else managed-project
\* file, else JVM metadata, else script-based): the java branch handles only
\* projects of kind java, the isolated branch only those of kind
\* dotNetIsolated, function.json files are read only for dotNetInProcess and
\* scriptBased, and publish has run exactly when the kind is dotNetInProcess.
C11_KindByFirstMatch ==
    (Ran("traverseJavaProject") \/ Ran("traverseDotNetIsolatedProject") \/ Ran("readdir")) =>
        /\ Ran("traverseJavaProject") => KindByFirstMatch = "java"
        /\ Ran("traverseDotNetIsolatedProject") => KindByFirstMatch = "dotNetIsolated"
        /\ Ran("readdir") => KindByFirstMatch \in {"dotNetInProcess", "scriptBased"}
        /\ Ran("publish") <=> KindByFirstMatch = "dotNetInProcess"

\* The temporary directories the run has created, in the order of creation.
CreatedTempFolders ==
    (IF \E i \in DOMAIN steps : steps[i] = "clone" /\ projectFolder = "gitTempFolder"
     THEN <<"gitTempFolder">> ELSE <<>>)
        \o (IF Ran("publish") THEN <<"publishTempFolder">> ELSE <<>>)

IsPrefix(s, t) == Len(s) <= Len(t) /\ SubSeq(t, 1, Len(s)) = s

FirstOccurrence(name, text) ==
    LET at == {i \in DOMAIN text : text[i] = ProxyKey(name)}
    IN  IF at = {} THEN 0 ELSE CHOOSE i \in at : \A j \in at : i <= j

NewlinesBefore(text, i) == Cardinality({j \in 1..(i - 1) : text[j] = Newline})

\* C13: after a proxies.json that parses was read, every proxy of it is in
\* the proxies map; if the text "name": occurs in the raw text, the proxy's
\* pos is the offset of its first occurrence and its lineNr is 1 plus the
\* number of newlines before that offset; if it does not occur, the proxy
\* has neither pos nor lineNr.
C13_ProxyPositionIsFirstOccurrence ==
    (pc = "done" /\ facts.proxiesJson = "valid") =>
        \A name \in ProxyNamesOf(facts.proxiesText) :
            \E p \in proxies :
                /\ p.name = name
                /\ LET i == FirstOccurrence(name, facts.proxiesText)
                   IN  IF i = 0
                       THEN p.pos = Undefined /\ p.lineNr = Undefined
                       ELSE /\ p.pos = Offset(facts.proxiesText, i)
                            /\ p.lineNr = 1 + NewlinesBefore(facts.proxiesText, i)

\* C14: in a .NET project, after the mapping, every function that is not an
\* orchestrator and whose code was located (activity, entity or other) has
\* the binding list that the enrichment makes of its descriptor bindings and
\* the bindings extracted from its code.
C14_EveryNonOrchestratorIsEnriched ==
    (Mapped /\ projectKind = "dotNet") =>
        \A n \in FuncNames :
            (dirs[n].kind = "valid" /\ ~IsOrchestrator(n) /\ CodeFound(n)) =>
                Get(functions, n).bindings =
                    EnrichBindings(dirs[n].bindings, source[n].attrs)

\* The candidates of type t among the bindings extracted from code.
CandidatesOfType(t) == SelectSeq(enrichInput.code, LAMBDA b : b.type = t)

\* C15: after the enrichment every descriptor binding keeps its type and
\* place; one that had a direction keeps it; one that had none carries the
\* direction of the candidate of its type if there is exactly one such
\* candidate and still has none otherwise.  Every binding behind the
\* descriptor bindings is a candidate as it was extracted.
C15_DirectionOfTheOnlyCandidate ==
    Len(enrichRuns) >= 1 =>
        LET json == enrichInput.json
            result == enrichRuns[1]
        IN  /\ Len(result) >= Len(json)
            /\ \A i \in DOMAIN result :
                  IF i <= Len(json)
                  THEN /\ result[i].type = json[i].type
                       /\ result[i].direction =
                             IF json[i].direction # Undefined THEN json[i].direction
                             ELSE IF Len(CandidatesOfType(json[i].type)) = 1
                                  THEN CandidatesOfType(json[i].type)[1].direction
                                  ELSE Undefined
                  ELSE result[i] \in Range(enrichInput.code)

C15_Witness ==
    /\ Len(enrichRuns) >= 1
    /\ Len(enrichInput.json) = 2
    /\ \E i, j \in DOMAIN enrichInput.json :
          /\ enrichInput.json[i].direction = Undefined
          /\ Len(CandidatesOfType(enrichInput.json[i].type)) = 1
          /\ enrichRuns[1][i].direction = "out"
          /\ enrichInput.json[j].direction = Undefined
          /\ Len(CandidatesOfType(enrichInput.json[j].type)) = 0
          /\ enrichRuns[1][j].direction = Undefined

\* C20: for orchestrators O and S whose code was located, O is in
\* S.isCalledBy once for a sub-orchestrator call of S in O's code if O and S
\* differ, once more if S is also an activity that O's code calls, and not
\* otherwise; an orchestrator whose code calls itself as sub-orchestrator is
\* not put into its own isCalledBy for that.
C20_SubOrchestratorCalledByOrchestrator ==
    Mapped =>
        \A O \in FuncNames, S \in FuncNames :
            (IsOrchestrator(O) /\ CodeFound(O) /\ IsOrchestrator(S) /\ CodeFound(S)) =>
                Occurrences(O, Get(functions, S).isCalledBy) =
                    (IF O # S /\ CodeHas(O, "callSubOrchestrator", S) THEN 1 ELSE 0)
                        + (IF IsActivity(S) /\ CodeHas(O, "callActivity", S) THEN 1 ELSE 0)

C20_Witness ==
    /\ Mapped
    /\ \E O \in FuncNames, S \in FuncNames, T \in FuncNames :
          /\ O # S /\ O # T /\ S # T
          /\ IsOrchestrator(O) /\ IsOrchestrator(S) /\ IsOrchestrator(T)
          /\ ~IsActivity(O) /\ ~IsActivity(S)
          /\ CodeHas(O, "callSubOrchestrator", S)
          /\ CodeHas(O, "callSubOrchestrator", O)
          /\ CodeFound(T) /\ ~CodeHas(T, "callSubOrchestrator", S)
          /\ Get(functions, S).isCalledBy = <<O>>
          /\ O \notin Range(Get(functions, O).isCalledBy)

\* The functions map of the project when the function.json reads complete
\* in the order of the directory listing.
MapInListingOrder ==
    LET read == FunctionsFrom(dirs, NameSeq)
        b == Buckets(read, source)
    IN  MapPassesOf(read, projectKind, b.orchestrators, b.activities, b.entities,
                    b.otherFunctions, b.activityNames)

\* C16: the graph mapping runs only when no function.json read is pending,
\* and the functions map a script-based or published project returns is,
\* whatever the order in which the reads completed, the one of the listing
\* order: the same names, and for each the same isCalledBy and isSignalledBy
\* lists in the same order.
C16_CompletionOrderIsIrrelevant ==
    /\ pc \in {"map", "passes"} => pending = {}
    /\ (outcome = "returned" /\ Ran("readFunctionJson")) =>
          \A n \in FuncNames :
              /\ HasKey(functions, n) <=> HasKey(MapInListingOrder, n)
              /\ HasKey(functions, n) =>
                    /\ Get(functions, n).isCalledBy = Get(MapInListingOrder, n).isCalledBy
                    /\ Get(functions, n).isSignalledBy = Get(MapInListingOrder, n).isSignalledBy

\* The kind, in the terms of mapOrchestratorsAndActivitiesAsync, of the
\* branch that traverseFunctionProject took.
KindOfBranch ==
    IF Ran("traverseJavaProject") THEN "java"
    ELSE IF Ran("publish") THEN "dotNet"
    ELSE "other"

\* C17: the kind mapOrchestratorsAndActivitiesAsync uses for the code lookup
\* and the enrichment is the kind of the branch traverseFunctionProject
\* took.
C17_OneKindPerTraversal == Ran("map") => projectKind = KindOfBranch

\* What the caller holds of tempFolders when the run has ended: the returned
\* list, or nothing when the run has thrown.
HandedToCaller == IF outcome = "returned" THEN tempFolders ELSE <<>>

\* C18: when the run has ended, by returning or by throwing, the caller has
\* been handed every temporary directory the run created.
C18_TempFoldersReachTheCaller == pc = "done" => HandedToCaller = CreatedTempFolders

\* C19: when exactly one function.json of a script-based or published
\* project cannot be parsed or declares no bindings array, the traversal
\* still returns, the graph mapping has run, and every function with a
\* function.json that declares bindings is in the returned map.
C19_OneBadDescriptorIsRecoverable ==
    (/\ pc = "done"
     /\ Ran("readFunctionJson")
     /\ Cardinality({n \in FuncNames : dirs[n].kind \in {"unparseable", "noBindings"}}) = 1) =>
        /\ outcome = "returned"
        /\ Mapped
        /\ \A n \in FuncNames : dirs[n].kind = "valid" => HasKey(functions, n)

One(cond) == IF cond THEN 1 ELSE 0

\* How often the passes other than the start-new pass put G into
\* n.isCalledBy.
ByOtherThanStartNew(G, n) ==
    One(/\ IsOrchestrator(G) /\ CodeFound(G) /\ IsOrchestrator(n) /\ CodeFound(n)
        /\ G # n /\ CodeHas(G, "callSubOrchestrator", n))
        + One(IsOrchestrator(G) /\ CodeFound(G) /\ IsActivity(n) /\ CodeHas(G, "callActivity", n))
        + One(/\ IsOther(G) /\ CodeFound(G) /\ IsEntity(n) /\ CodeFound(n)
              /\ CodeHas(G, "signalEntity", n))

\* C21 as stated: for every orchestrator O, located or not, and every other
\* function F whose code was located, the start-new pass puts F into
\* O.isCalledBy exactly when F's code starts O; it puts in no function of
\* the orchestrator, activity or entity buckets.
C21_StartersOfEveryOrchestrator ==
    Mapped =>
        \A O \in FuncNames, F \in FuncNames :
            (IsOrchestrator(O) /\ CodeFound(F)) =>
                Occurrences(F, Get(functions, O).isCalledBy) =
                    One(IsOther(F) /\ CodeHas(F, "startNew", O)) + ByOtherThanStartNew(F, O)

\* What the code does (C21): the same for every orchestrator O whose code was
\* located; an orchestrator whose code was not located gets no starter.
C21_StartersOfLocatedOrchestrators ==
    Mapped =>
        \A O \in FuncNames, F \in FuncNames :
            (IsOrchestrator(O) /\ CodeFound(F)) =>
                Occurrences(F, Get(functions, O).isCalledBy) =
                    One(CodeFound(O) /\ IsOther(F) /\ CodeHas(F, "startNew", O))
                        + ByOtherThanStartNew(F, O)

\* An unlocated orchestrator P that F starts and that has no starter.
C21_Witness ==
    /\ Mapped
    /\ \E O \in FuncNames, P \in FuncNames, F \in FuncNames :
          /\ O # P
          /\ dirs[O].bindings = OrchestratorBindings /\ CodeFound(O)
          /\ dirs[P].bindings = OrchestratorBindings /\ ~CodeFound(P)
          /\ IsOther(F)
          /\ CodeHas(F, "startNew", O) /\ CodeHas(F, "startNew", P)
          /\ Get(functions, O).isCalledBy = <<F>>
          /\ Get(functions, P).isCalledBy = <<>>

\* How often the passes other than the entity pass put G into n.isCalledBy.
ByOtherThanEntityPass(G, n) ==
    One(/\ IsOrchestrator(G) /\ CodeFound(G) /\ IsOrchestrator(n) /\ CodeFound(n)
        /\ G # n /\ CodeHas(G, "callSubOrchestrator", n))
        + One(IsOrchestrator(G) /\ CodeFound(G) /\ IsActivity(n) /\ CodeHas(G, "callActivity", n))
        + One(/\ IsOther(G) /\ CodeFound(G) /\ IsOrchestrator(n) /\ CodeFound(n)
              /\ CodeHas(G, "startNew", n))

\* C22 as stated: for every function n and every function F whose code was
\* located, the entity pass puts F into n.isCalledBy exactly when n is an
\* entity, located or not, F is an other function and F's code signals n;
\* the entity pass adds nothing else to any isCalledBy and nothing to any
\* isSignalledBy.
C22_SignallersOfEveryEntity ==
    Mapped =>
        \A n \in FuncNames, F \in FuncNames :
            CodeFound(F) =>
                /\ Occurrences(F, Get(functions, n).isCalledBy) =
                      One(IsEntity(n) /\ IsOther(F) /\ CodeHas(F, "signalEntity", n))
                          + ByOtherThanEntityPass(F, n)
                /\ ~IsOrchestrator(n) => Get(functions, n).isSignalledBy = <<>>

\* What the code does (C22): the same for every entity whose code was
\* located; an entity whose code was not located gets no caller.
C22_SignallersOfLocatedEntities ==
    Mapped =>
        \A n \in FuncNames, F \in FuncNames :
            CodeFound(F) =>
                /\ Occurrences(F, Get(functions, n).isCalledBy) =
                      One(/\ IsEntity(n) /\ CodeFound(n) /\ IsOther(F)
                          /\ CodeHas(F, "signalEntity", n))
                          + ByOtherThanEntityPass(F, n)
                /\ ~IsOrchestrator(n) => Get(functions, n).isSignalledBy = <<>>

\* An unlocated entity U that F signals and that has no caller.
C22_Witness ==
    /\ Mapped
    /\ \E T \in FuncNames, U \in FuncNames, F \in FuncNames :
          /\ T # U
          /\ dirs[T].bindings = EntityBindings /\ CodeFound(T)
          /\ dirs[U].bindings = EntityBindings /\ ~CodeFound(U)
          /\ IsOther(F)
          /\ CodeHas(F, "signalEntity", T) /\ CodeHas(F, "signalEntity", U)
          /\ Get(functions, T).isCalledBy = <<F>>
          /\ Get(functions, U).isCalledBy = <<>>

\* The function declares at most one of the three durable trigger types.
AtMostOneDurableTrigger(n) ==
    Cardinality({t \in DurableTriggers : HasBindingOfType(dirs[n], {t})}) <= 1

\* C23: in the final functions map, the isCalledBy list of a function with
\* at most one durable trigger type holds each caller name at most once,
\* however many matching calls the caller's code contains.
C23_EachCallerAtMostOnce ==
    Mapped =>
        \A n \in FuncNames :
            AtMostOneDurableTrigger(n) => NoDuplicates(Get(functions, n).isCalledBy)

\* A caller whose code starts the orchestrator twice is recorded once.
C23_Witness ==
    /\ Mapped
    /\ \E O \in FuncNames, F \in FuncNames :
          /\ dirs[O].bindings = OrchestratorBindings /\ CodeFound(O)
          /\ IsOther(F) /\ CodeFound(F)
          /\ Occurrences(Stmt("startNew", O), source[F].code) = 2
          /\ Get(functions, O).isCalledBy = <<F>>

\* The names of the warned proxies of the returned proxies map.
Warned == {p \in proxies : p.warningNotAddedToCsProjFile}

\* The project file found does not register proxies.json.
NotRegistered == facts.csProjFile \in {"empty", "lacks"}

\* C24: the warning is set on every proxy of the returned map if the
\* project is a .NET project whose project file does not register
\* proxies.json, and on no proxy otherwise; never on only some proxies.
C24_WarningIffNotRegistered ==
    (Ran("proxies") /\ outcome = "returned") =>
        /\ Warned \in {{}, proxies}
        /\ (facts.dotNetRoot = "yes" /\ NotRegistered) => Warned = proxies
        /\ ~(facts.dotNetRoot = "yes" /\ NotRegistered) => Warned = {}

\* What the code does (C24): the warning is set on every proxy exactly when
\* the project is a .NET project and a .csproj was found whose text is not
\* empty and has no entry for proxies.json.
C24_WarningIffNonEmptyCsProjLacksEntry ==
    (Ran("proxies") /\ outcome = "returned") =>
        /\ Warned \in {{}, proxies}
        /\ (facts.dotNetRoot = "yes" /\ facts.csProjFile = "lacks") => Warned = proxies
        /\ ~(facts.dotNetRoot = "yes" /\ facts.csProjFile = "lacks") => Warned = {}

\* A .NET project with an empty .csproj and two proxies without warning.
C24_Witness ==
    /\ Ran("proxies") /\ outcome = "returned"
    /\ facts.dotNetRoot = "yes" /\ facts.csProjFile = "empty"
    /\ Cardinality(proxies) = 2
    /\ Warned = {}

\* --- MonitorViewList

\* The connection-string hash key of the view object v.
KeyOfView(v) == views[v].storageConnectionSettings.connStringHashKey

\* C25: in every reachable state every registered view uses the backend
\* that is registered under the view's connection-string hash key.
C25_ViewsUseTheRegisteredBackend ==
    \A v \in RegisteredViews(List) :
        [key |-> KeyOfView(v), backend |-> views[v].backend] \in backends

\* C26: a getOrCreateFromStorageConnectionSettings call leaves at most one
\* view per hash key and one backend per connection-string hash key
\* registered; with a registered hash key it returns the existing view and
\* creates nothing; the views of one connection string share its backend.
C26_OneViewPerSettingsOneBackendPerConnection ==
    [][(returned'.op = "getOrCreateFromStorageConnectionSettings") =>
          LET connSettings == StorageConnectionSettings(returned'.conn, returned'.hub)
              existing == ViewAt(List, connSettings.hashKey)
          IN  /\ \A i, j \in DOMAIN monitorViews' :
                    monitorViews'[i].key = monitorViews'[j].key => i = j
              /\ \A e, f \in backends' : e.key = f.key => e = f
              /\ ViewAt(List', connSettings.hashKey) = returned'.view
              /\ existing # 0 =>
                    /\ returned'.view = existing
                    /\ UNCHANGED <<monitorViews, backends, views, backendProcesses>>
              /\ \A v \in RegisteredViews(List') :
                    /\ views'[v].storageConnectionSettings.hashKey
                          = monitorViews'[CHOOSE i \in DOMAIN monitorViews' :
                                              monitorViews'[i].view = v].key
                    /\ BackendAt(List', views'[v].storageConnectionSettings.connStringHashKey)
                          = views'[v].backend]_vars

\* Two hubs of one connection string share a backend, and the last call,
\* with a registered hash key, returned the existing view.
C26_Witness ==
    /\ returned.op = "getOrCreateFromStorageConnectionSettings"
    /\ Len(views) = 2 /\ Len(monitorViews) = 2 /\ Len(backendProcesses) = 1
    /\ views[1].storageConnectionSettings.storageConnString
          = views[2].storageConnectionSettings.storageConnString
    /\ views[1].storageConnectionSettings.hubName # views[2].storageConnectionSettings.hubName
    /\ views[1].backend = views[2].backend
    /\ returned.view = 1

\* C27: cleanup() empties both registries before it suspends, invokes
\* cleanup on every view and every backend that was registered, and its
\* promise completes only after all of those backend cleanups completed.
C27_CleanupStopsBackendsAndClosesViews ==
    [][/\ (returned'.op = "cleanup" /\ ~returned'.done) =>
             /\ monitorViews' = <<>>
             /\ backends' = {}
             /\ \A v \in RegisteredViews(List) : views'[v].cleanedUp
             /\ \A b \in RegisteredBackends(List) : backendProcesses'[b].state # "running"
             /\ calls' = Append(calls, Suspended("cleanup", Undefined, Undefined,
                                                 RegisteredBackends(List)))
       /\ (returned'.op = "cleanup" /\ returned'.done) =>
             \E i \in DOMAIN calls :
                /\ calls[i].op = "cleanup"
                /\ calls' = RemoveAt(calls, i)
                /\ \A b \in calls[i].awaits : backendProcesses'[b].state = "cleaned"]_vars

\* The promise of a cleanup() that closed two views and stopped two
\* backends has completed.
C27_Witness ==
    /\ returned.op = "cleanup" /\ returned.done
    /\ calls = <<>>
    /\ monitorViews = <<>> /\ backends = {}
    /\ Len(views) = 2 /\ \A v \in DOMAIN views : views[v].cleanedUp
    /\ Len(backendProcesses) = 2
    /\ \A b \in DOMAIN backendProcesses : backendProcesses[b].state = "cleaned"

\* C28: when forgetConnectionString(c) completes, no view and no backend of
\* c is registered, the secret of c's hash key is deleted, and the
\* persisted list has lost every occurrence of c's hash key and nothing
\* else, the other hashes keeping their order.
C28_ForgottenConnectionLeavesNothing ==
    [][(returned'.op = "forgetConnectionString" /\ returned'.done) =>
          LET connStringHashKey == GetConnStringHashKey(returned'.conn)
          IN  /\ \A v \in RegisteredViews(List') :
                    views'[v].storageConnectionSettings.connStringHashKey # connStringHashKey
              /\ BackendAt(List', connStringHashKey) = 0
              /\ \A e \in secrets' : e.key # connStringHashKey
              /\ connStringHashes'.defined = connStringHashes.defined
              /\ connStringHashes'.value =
                    SelectSeq(connStringHashes.value, LAMBDA h : h # connStringHashKey)]_vars

\* What the code does (C28): the secret and the persisted list are as the
\* claim says, and no backend of c is registered; a view of c may be.
C28_ForgottenConnectionLeavesNoBackend ==
    [][(returned'.op = "forgetConnectionString" /\ returned'.done) =>
          LET connStringHashKey == GetConnStringHashKey(returned'.conn)
          IN  /\ BackendAt(List', connStringHashKey) = 0
              /\ \A e \in secrets' : e.key # connStringHashKey
              /\ connStringHashes'.defined = connStringHashes.defined
              /\ connStringHashes'.value =
                    SelectSeq(connStringHashes.value, LAMBDA h : h # connStringHashKey)]_vars

====
